---- MODULE Spec2Model ----
(***************************************************************************)
(* Model of TelloExplorer (src/single_drone/connect.py): the growable      *)
(* occupancy grid (occ_map, visited, origin), the pose tracker, the        *)
(* frontier detector, the motion planner and the run loop.                 *)
(*                                                                         *)
(* Units.  Positions are integers in centimetres, headings are integers    *)
(* in hundredths of a degree, so that round(), int() and the float modulo  *)
(* of the source are real conversions in the model.  A pose sample carries *)
(* the yaw that the quaternion decomposes to (scipy's as_euler is library  *)
(* code); z is accepted by update_pose and unused, and is left out.        *)
(*                                                                         *)
(* Arrays.  occ_map and visited are sequences of rows; the source's        *)
(* 0-based index i is the model's i + 1.  A negative index is resolved as  *)
(* numpy resolves it: i + length.                                          *)
(***************************************************************************)
EXTENDS Integers, Sequences, FiniteSets, TLC

\* ------------------------------------------------------------ bounds
\* Longest pose stream the pose source delivers.
MaxPoses == 5
\* init_size passed to the constructor (the source's default is 50).
InitSize == 3

\* ------------------------------------------------------------ constants
\* resolution = 0.5 m per cell, in centimetres.
ResolutionCm == 50
unknown == -1
free == 0
occ == 1
\* Hundredths of a degree in one degree, and in a full and a half turn.
CentiPerDeg == 100
FullTurn == 360 * CentiPerDeg
HalfTurn == 180 * CentiPerDeg

None == <<>>

\* The pose samples the pose source may deliver: x, y in centimetres and
\* the yaw of the orientation quaternion in hundredths of a degree.  They
\* cover world cell (0,0) (by two rounding ties), its four neighbours (on
\* row 0 and column 0 of a grid of size 3), and a cell one row above the
\* initial grid.
HalfSize == InitSize \div 2
Pose(x, y, a) == [x |-> x, y |-> y, yaw |-> a]
PoseSamples ==
    { Pose(25, -25, 0),
      Pose(60, 0, 0),
      Pose(-50, 10, HalfTurn),
      Pose(-20, 50, 9050),
      Pose(0, -50, -9000),
      Pose(-(HalfSize + 1) * ResolutionCm, 75, -17950) }

VARIABLES
    occ_map,    \* self.occ_map: sequence of rows of cell states
    visited,    \* self.visited: sequence of rows of booleans
    origin,     \* self.origin: <<row, col>> of world (0,0)
    curr_idx,   \* self.curr_idx
    yaw,        \* self.yaw, hundredths of a degree
    pc,         \* position of run()
    pose,       \* run's local `pose`: the last sample obtained, or None
    f,          \* choose_next_goal's local `f`: the last frontier
    goal,       \* run's local `goal`
    cmds,       \* the commands sent to self.tello, in order
    reason,     \* why run left its loop
    nposes,     \* pose samples consumed so far
    cancel      \* the external cancel signal

vars == <<occ_map, visited, origin, curr_idx, yaw, pc, pose, f, goal, cmds,
          reason, nposes, cancel>>

\* The state of spiral_capture's main() and logging thread.
VARIABLES
    mpc,             \* position of main()
    leg,             \* legs of the spiral flown: the for loop's count
    logging_active,  \* logging_active[0]
    thread,          \* position of the logging thread's loop()
    ts_log           \* the file object of timestep.txt

svars == <<mpc, leg, logging_active, thread, ts_log>>

\* ------------------------------------------------------------ arithmetic
Max(a, b) == IF a >= b THEN a ELSE b
Abs(a) == IF a >= 0 THEN a ELSE -a

\* Python's round(n / d) for d > 0: to nearest, ties to even.
PyRound(n, d) ==
    LET q == n \div d
        r == n % d
    IN  IF 2 * r < d THEN q
        ELSE IF 2 * r > d THEN q + 1
        ELSE IF q % 2 = 0 THEN q ELSE q + 1

\* Python's int() of a non-negative value v / d: truncation.
PyInt(v, d) == v \div d

\* ------------------------------------------------------------ arrays
Height(m) == Len(m)
Width(m) == Len(m[1])

\* numpy's resolution of an index into an axis of length n.
NpIndex(i, n) == IF i < 0 THEN i + n ELSE i

\* m[r, c]
Get(m, r, c) == m[NpIndex(r, Height(m)) + 1][NpIndex(c, Width(m)) + 1]

\* m[r, c] = v
Put(m, r, c, v) ==
    LET i == NpIndex(r, Height(m)) + 1
        j == NpIndex(c, Width(m)) + 1
    IN  [m EXCEPT ![i] = [@ EXCEPT ![j] = v]]

\* np.full((h, w), v)
Full(h, w, v) == [i \in 1..h |-> [j \in 1..w |-> v]]

\* np.pad(m, ((top, bottom), (left, right)), constant_values=v)
Pad(m, top, bottom, left, right, v) ==
    LET h == Height(m)
        w == Width(m)
    IN  [i \in 1..(top + h + bottom) |->
            [j \in 1..(left + w + right) |->
                IF /\ i > top /\ i <= top + h
                   /\ j > left /\ j <= left + w
                THEN m[i - top][j - left]
                ELSE v]]

\* ------------------------------------------------------------ the grid
\* The explorer's map state, as the methods below read and write it.
Self == [occ_map |-> occ_map, visited |-> visited, origin |-> origin,
         curr_idx |-> curr_idx]

world_to_grid(s, x, y) ==
    <<PyRound(x, ResolutionCm) + s.origin[1],
      PyRound(y, ResolutionCm) + s.origin[2]>>

\* ensure_in_map padding one row more than needed on the bottom.
ensure_in_mapBottomWide(s, gx, gy) ==
    LET h == Height(s.occ_map)
        w == Width(s.occ_map)
        pad_top == Max(0, -gx)
        pad_bottom == Max(0, gx - (h - 2))
        pad_left == Max(0, -gy)
        pad_right == Max(0, gy - (w - 1))
    IN  IF pad_top # 0 \/ pad_bottom # 0 \/ pad_left # 0 \/ pad_right # 0
        THEN [occ_map |-> Pad(s.occ_map, pad_top, pad_bottom, pad_left,
                              pad_right, unknown),
              visited |-> Pad(s.visited, pad_top, pad_bottom, pad_left,
                              pad_right, FALSE),
              origin |-> <<s.origin[1] + pad_top, s.origin[2] + pad_left>>,
              curr_idx |-> <<s.curr_idx[1] + pad_top,
                             s.curr_idx[2] + pad_left>>]
        ELSE s

\* ensure_in_map shifting origin against the pad.
ensure_in_mapOriginBack(s, gx, gy) ==
    LET h == Height(s.occ_map)
        w == Width(s.occ_map)
        pad_top == Max(0, -gx)
        pad_bottom == Max(0, gx - (h - 1))
        pad_left == Max(0, -gy)
        pad_right == Max(0, gy - (w - 1))
    IN  IF pad_top # 0 \/ pad_bottom # 0 \/ pad_left # 0 \/ pad_right # 0
        THEN [occ_map |-> Pad(s.occ_map, pad_top, pad_bottom, pad_left,
                              pad_right, unknown),
              visited |-> Pad(s.visited, pad_top, pad_bottom, pad_left,
                              pad_right, FALSE),
              origin |-> <<s.origin[1] - pad_top, s.origin[2] - pad_left>>,
              curr_idx |-> <<s.curr_idx[1] + pad_top,
                             s.curr_idx[2] + pad_left>>]
        ELSE s

\* ensure_in_map padding with free, visited cells.
ensure_in_mapPadFree(s, gx, gy) ==
    LET h == Height(s.occ_map)
        w == Width(s.occ_map)
        pad_top == Max(0, -gx)
        pad_bottom == Max(0, gx - (h - 1))
        pad_left == Max(0, -gy)
        pad_right == Max(0, gy - (w - 1))
    IN  IF pad_top # 0 \/ pad_bottom # 0 \/ pad_left # 0 \/ pad_right # 0
        THEN [occ_map |-> Pad(s.occ_map, pad_top, pad_bottom, pad_left,
                              pad_right, free),
              visited |-> Pad(s.visited, pad_top, pad_bottom, pad_left,
                              pad_right, TRUE),
              origin |-> <<s.origin[1] + pad_top, s.origin[2] + pad_left>>,
              curr_idx |-> <<s.curr_idx[1] + pad_top,
                             s.curr_idx[2] + pad_left>>]
        ELSE s

\* ensure_in_map without the shift of curr_idx.
ensure_in_mapCurrKept(s, gx, gy) ==
    LET h == Height(s.occ_map)
        w == Width(s.occ_map)
        pad_top == Max(0, -gx)
        pad_bottom == Max(0, gx - (h - 1))
        pad_left == Max(0, -gy)
        pad_right == Max(0, gy - (w - 1))
    IN  IF pad_top # 0 \/ pad_bottom # 0 \/ pad_left # 0 \/ pad_right # 0
        THEN [occ_map |-> Pad(s.occ_map, pad_top, pad_bottom, pad_left,
                              pad_right, unknown),
              visited |-> Pad(s.visited, pad_top, pad_bottom, pad_left,
                              pad_right, FALSE),
              origin |-> <<s.origin[1] + pad_top, s.origin[2] + pad_left>>,
              curr_idx |-> s.curr_idx]
        ELSE s

ensure_in_map(s, gx, gy) ==
    LET h == Height(s.occ_map)
        w == Width(s.occ_map)
        pad_top == Max(0, -gx)
        pad_bottom == Max(0, gx - (h - 1))
        pad_left == Max(0, -gy)
        pad_right == Max(0, gy - (w - 1))
    IN  IF pad_top # 0 \/ pad_bottom # 0 \/ pad_left # 0 \/ pad_right # 0
        THEN [occ_map |-> Pad(s.occ_map, pad_top, pad_bottom, pad_left,
                              pad_right, unknown),
              visited |-> Pad(s.visited, pad_top, pad_bottom, pad_left,
                              pad_right, FALSE),
              origin |-> <<s.origin[1] + pad_top, s.origin[2] + pad_left>>,
              curr_idx |-> <<s.curr_idx[1] + pad_top,
                             s.curr_idx[2] + pad_left>>]
        ELSE s

\* update_pose marking the cell free without marking it visited.
update_poseUnvisited(s, x, y) ==
    LET g == world_to_grid(s, x, y)
        s1 == ensure_in_map(s, g[1], g[2])
    IN  [s1 EXCEPT !.curr_idx = g,
                   !.occ_map = Put(s1.occ_map, g[1], g[2], free)]

\* update_pose marking the cell occupied.
update_poseOcc(s, x, y) ==
    LET g == world_to_grid(s, x, y)
        s1 == ensure_in_map(s, g[1], g[2])
    IN  [s1 EXCEPT !.curr_idx = g,
                   !.occ_map = Put(s1.occ_map, g[1], g[2], occ),
                   !.visited = Put(s1.visited, g[1], g[2], TRUE)]

\* update_pose, steps 2 and 3 (the heading is set by the action).
update_pose(s, x, y) ==
    LET g == world_to_grid(s, x, y)
        s1 == ensure_in_map(s, g[1], g[2])
    IN  [s1 EXCEPT !.curr_idx = g,
                   !.occ_map = Put(s1.occ_map, g[1], g[2], free),
                   !.visited = Put(s1.visited, g[1], g[2], TRUE)]

Offsets == <<<<-1, 0>>, <<1, 0>>, <<0, -1>>, <<0, 1>>>>

\* get_frontier's loop from offset k on: x0, y0 were read before the loop,
\* the map is re-read after every ensure_in_map (s1 is the object after that
\* call, computed once per iteration).
RECURSIVE FrontierFrom(_, _, _, _, _)
FrontierFrom(s, x0, y0, k, front) ==
    IF k > Len(Offsets) THEN [self |-> s, front |-> front]
    ELSE LET nx == x0 + Offsets[k][1]
             ny == y0 + Offsets[k][2]
             Rest(s1) ==
                 FrontierFrom(s1, x0, y0, k + 1,
                     IF Get(s1.occ_map, nx, ny) = unknown
                     THEN Append(front, <<nx, ny>>)
                     ELSE front)
         IN  CHOOSE r \in {Rest(s1) : s1 \in {ensure_in_map(s, nx, ny)}} :
                 TRUE

get_frontier(s) == FrontierFrom(s, s.curr_idx[1], s.curr_idx[2], 1, <<>>)

\* choose_next_goal: the frontier and its first element, or None.
choose_next_goal(s) ==
    CHOOSE c \in {[self |-> r.self, front |-> r.front,
                   goal |-> IF r.front # <<>> THEN r.front[1] ELSE None] :
                      r \in {get_frontier(s)}} : TRUE

\* ------------------------------------------------------------ motion planner
\* Largest |dx|, |dy| the heading table covers.
MaxOffset == 6

\* math.degrees(math.atan2(dy, dx)) in hundredths of a degree, rounded to
\* nearest, for -MaxOffset <= dx, dy <= MaxOffset: row dy, column dx.
Atan2Table ==
    <<<<-13500, -12981, -12369, -11657, -10843,  -9946,  -9000,  -8054,  -7157,  -6343,  -5631,  -5019,  -4500>>,
      <<-14019, -13500, -12866, -12096, -11180, -10131,  -9000,  -7869,  -6820,  -5904,  -5134,  -4500,  -3981>>,
      <<-14631, -14134, -13500, -12687, -11657, -10404,  -9000,  -7596,  -6343,  -5313,  -4500,  -3866,  -3369>>,
      <<-15343, -14904, -14313, -13500, -12369, -10843,  -9000,  -7157,  -5631,  -4500,  -3687,  -3096,  -2657>>,
      <<-16157, -15820, -15343, -14631, -13500, -11657,  -9000,  -6343,  -4500,  -3369,  -2657,  -2180,  -1843>>,
      <<-17054, -16869, -16596, -16157, -15343, -13500,  -9000,  -4500,  -2657,  -1843,  -1404,  -1131,   -946>>,
      << 18000,  18000,  18000,  18000,  18000,  18000,      0,      0,      0,      0,      0,      0,      0>>,
      << 17054,  16869,  16596,  16157,  15343,  13500,   9000,   4500,   2657,   1843,   1404,   1131,    946>>,
      << 16157,  15820,  15343,  14631,  13500,  11657,   9000,   6343,   4500,   3369,   2657,   2180,   1843>>,
      << 15343,  14904,  14313,  13500,  12369,  10843,   9000,   7157,   5631,   4500,   3687,   3096,   2657>>,
      << 14631,  14134,  13500,  12687,  11657,  10404,   9000,   7596,   6343,   5313,   4500,   3866,   3369>>,
      << 14019,  13500,  12866,  12096,  11180,  10131,   9000,   7869,   6820,   5904,   5134,   4500,   3981>>,
      << 13500,  12981,  12369,  11657,  10843,   9946,   9000,   8054,   7157,   6343,   5631,   5019,   4500>>>>

Atan2Deg(dy, dx) == Atan2Table[dy + MaxOffset + 1][dx + MaxOffset + 1]

\* The integer part of the square root of n, at most hi.
Isqrt(n, hi) == CHOOSE k \in 0..hi : k * k <= n /\ (k + 1) * (k + 1) > n

\* rotate_to's diff without the shift by a half-turn: [0, 360).
YawDiffUnshifted(target_yaw, cur_yaw) == (target_yaw - cur_yaw) % FullTurn

\* rotate_to's diff = (target_yaw - self.yaw + 180) % 360 - 180.
YawDiff(target_yaw, cur_yaw) ==
    ((target_yaw - cur_yaw + HalfTurn) % FullTurn) - HalfTurn

\* The command rotate_to sends for diff, or None when diff = 0.
RotateCmd(diff) ==
    IF diff > 0 THEN [name |-> "rotate_clockwise",
                      arg |-> PyInt(diff, CentiPerDeg)]
    ELSE IF diff < 0 THEN [name |-> "rotate_counter_clockwise",
                           arg |-> PyInt(-diff, CentiPerDeg)]
    ELSE None

\* move_one_cell's yaw_goal with atan2's arguments exchanged.
YawGoalSwapped(cur, goal_idx) ==
    Atan2Deg(goal_idx[1] - cur[1], goal_idx[2] - cur[2])

\* move_one_cell's yaw_goal for goal_idx, from the current index.
YawGoal(cur, goal_idx) ==
    Atan2Deg(goal_idx[2] - cur[2], goal_idx[1] - cur[1])

\* move_one_cell's int(dist_m * 100): hypot(dx, dy) * resolution in cm.
ForwardCm(cur, goal_idx) ==
    LET dx == goal_idx[1] - cur[1]
        dy == goal_idx[2] - cur[2]
    IN  Isqrt(ResolutionCm * ResolutionCm * (dx * dx + dy * dy),
              ResolutionCm * (Abs(dx) + Abs(dy)))

\* ------------------------------------------------------------ run
\* A command as the executor saw it: ok is FALSE when it raised.
Cmd(name, arg, ok) == [name |-> name, arg |-> arg, ok |-> ok]

Init ==
    /\ occ_map = Full(InitSize, InitSize, unknown)
    /\ visited = Full(InitSize, InitSize, FALSE)
    /\ origin = <<InitSize \div 2, InitSize \div 2>>
    /\ curr_idx = <<InitSize \div 2, InitSize \div 2>>
    /\ yaw = 0
    /\ pc = "Idle"
    /\ pose = None
    /\ f = <<>>
    /\ goal = None
    /\ cmds = <<>>
    /\ reason = "none"
    /\ nposes = 0
    /\ cancel = FALSE

\* self.tello.land() after the loop.
Land(why) ==
    \E ok \in BOOLEAN :
        /\ cmds' = Append(cmds, Cmd("land", 0, ok))
        /\ pc' = IF ok THEN "Landed" ELSE "Raised"
        /\ reason' = why

\* self.tello.takeoff()
Takeoff ==
    /\ pc = "Idle"
    /\ \E ok \in BOOLEAN :
        /\ cmds' = Append(cmds, Cmd("takeoff", 0, ok))
        /\ pc' = IF ok THEN "Flying" ELSE "Raised"
    /\ UNCHANGED <<occ_map, visited, origin, curr_idx, yaw, pose, f, goal,
                   reason, nposes, cancel>>
    /\ UNCHANGED svars

\* get_pose_input() returns None and the loop makes for the last goal once
\* more before it lands.
PoseExhaustedMoving ==
    /\ pc = "Flying"
    /\ pose' = None
    /\ \E ok \in BOOLEAN :
        /\ cmds' = cmds \o <<Cmd("move_forward", ResolutionCm, TRUE),
                              Cmd("land", 0, ok)>>
        /\ pc' = IF ok THEN "Landed" ELSE "Raised"
        /\ reason' = "PoseStreamExhausted"
    /\ UNCHANGED <<occ_map, visited, origin, curr_idx, yaw, f, goal, nposes,
                   cancel>>
    /\ UNCHANGED svars

\* get_pose_input() returns None: break, then land.
PoseExhausted ==
    /\ pc = "Flying"
    /\ pose' = None
    /\ Land("PoseStreamExhausted")
    /\ UNCHANGED <<occ_map, visited, origin, curr_idx, yaw, f, goal, nposes,
                   cancel>>
    /\ UNCHANGED svars

\* get_pose_input() returns a sample: self.update_pose(*pose).
UpdatePose ==
    /\ pc = "Flying"
    /\ nposes < MaxPoses
    /\ \E p \in PoseSamples :
        LET s == update_pose(Self, p.x, p.y)
        IN  /\ pose' = p
            /\ yaw' = p.yaw
            /\ occ_map' = s.occ_map
            /\ visited' = s.visited
            /\ origin' = s.origin
            /\ curr_idx' = s.curr_idx
    /\ nposes' = nposes + 1
    /\ pc' = "Sensing"
    /\ UNCHANGED <<f, goal, cmds, reason, cancel>>
    /\ UNCHANGED svars

\* goal = self.choose_next_goal()
ChooseGoal ==
    /\ pc = "Sensing"
    /\ \E r \in {choose_next_goal(Self)} :
           /\ f' = r.front
           /\ goal' = r.goal
           /\ occ_map' = r.self.occ_map
           /\ visited' = r.self.visited
           /\ origin' = r.self.origin
           /\ curr_idx' = r.self.curr_idx
    /\ pc' = "Chosen"
    /\ UNCHANGED <<yaw, pose, cmds, reason, nposes, cancel>>
    /\ UNCHANGED svars

\* goal is None and the loop goes on to the next pose instead of breaking.
CompleteContinues ==
    /\ pc = "Chosen"
    /\ goal = None
    /\ pc' = "Flying"
    /\ UNCHANGED <<occ_map, visited, origin, curr_idx, yaw, pose, f, goal,
                   cmds, reason, nposes, cancel>>
    /\ UNCHANGED svars

\* goal is None: break, then land.
Complete ==
    /\ pc = "Chosen"
    /\ goal = None
    /\ Land("ExplorationComplete")
    /\ UNCHANGED <<occ_map, visited, origin, curr_idx, yaw, pose, f, goal,
                   nposes, cancel>>
    /\ UNCHANGED svars

\* rotate_to without the assignment self.yaw = target_yaw.
RotateToHeadingKept ==
    /\ pc = "Chosen"
    /\ goal # None
    /\ LET yaw_goal == YawGoal(curr_idx, goal)
           c == RotateCmd(YawDiff(yaw_goal, yaw))
       IN  \/ /\ c = None
              /\ cmds' = cmds
              /\ pc' = "Rotated"
           \/ /\ c # None
              /\ \E ok \in BOOLEAN :
                  /\ cmds' = Append(cmds, Cmd(c.name, c.arg, ok))
                  /\ pc' = IF ok THEN "Rotated" ELSE "Raised"
    /\ UNCHANGED <<occ_map, visited, origin, curr_idx, yaw, pose, f, goal,
                   reason, nposes, cancel>>
    /\ UNCHANGED svars

\* move_one_cell, first half: self.rotate_to(yaw_goal).
RotateTo ==
    /\ pc = "Chosen"
    /\ goal # None
    /\ LET yaw_goal == YawGoal(curr_idx, goal)
           c == RotateCmd(YawDiff(yaw_goal, yaw))
       IN  \/ /\ c = None
              /\ cmds' = cmds
              /\ yaw' = yaw_goal
              /\ pc' = "Rotated"
           \/ /\ c # None
              /\ \E ok \in BOOLEAN :
                  /\ cmds' = Append(cmds, Cmd(c.name, c.arg, ok))
                  /\ yaw' = IF ok THEN yaw_goal ELSE yaw
                  /\ pc' = IF ok THEN "Rotated" ELSE "Raised"
    /\ UNCHANGED <<occ_map, visited, origin, curr_idx, pose, f, goal, reason,
                   nposes, cancel>>
    /\ UNCHANGED svars

\* move_one_cell sending the forward command without rotating first.
MoveForwardUnrotated ==
    /\ pc = "Chosen"
    /\ goal # None
    /\ \E ok \in BOOLEAN :
        /\ cmds' = Append(cmds, Cmd("move_forward",
                                    ForwardCm(curr_idx, goal), ok))
        /\ pc' = IF ok THEN "Flying" ELSE "Raised"
    /\ UNCHANGED <<occ_map, visited, origin, curr_idx, yaw, pose, f, goal,
                   reason, nposes, cancel>>
    /\ UNCHANGED svars

\* move_one_cell sending the forward command twice.
MoveForwardTwice ==
    /\ pc = "Rotated"
    /\ \E ok \in BOOLEAN :
        /\ cmds' = cmds \o <<Cmd("move_forward",
                                 ForwardCm(curr_idx, goal), TRUE),
                             Cmd("move_forward",
                                 ForwardCm(curr_idx, goal), ok)>>
        /\ pc' = IF ok THEN "Flying" ELSE "Raised"
    /\ UNCHANGED <<occ_map, visited, origin, curr_idx, yaw, pose, f, goal,
                   reason, nposes, cancel>>
    /\ UNCHANGED svars

\* move_one_cell, second half: self.tello.move_forward(int(dist_m * 100)).
MoveForward ==
    /\ pc = "Rotated"
    /\ \E ok \in BOOLEAN :
        /\ cmds' = Append(cmds, Cmd("move_forward",
                                    ForwardCm(curr_idx, goal), ok))
        /\ pc' = IF ok THEN "Flying" ELSE "Raised"
    /\ UNCHANGED <<occ_map, visited, origin, curr_idx, yaw, pose, f, goal,
                   reason, nposes, cancel>>
    /\ UNCHANGED svars

\* The external cancel signal is raised between two iterations.
RaiseCancel ==
    /\ pc = "Flying"
    /\ ~cancel
    /\ cancel' = TRUE
    /\ UNCHANGED <<occ_map, visited, origin, curr_idx, yaw, pc, pose, f, goal,
                   cmds, reason, nposes>>
    /\ UNCHANGED svars

\* ------------------------------------------------------------ spiral_capture
\* for _ in range(10)
Legs == 10

\* The module is loaded and main() is about to run.
SpiralInit ==
    /\ mpc = "connect"
    /\ leg = 0
    /\ logging_active = TRUE
    /\ thread = "unstarted"
    /\ ts_log = "unopened"

\* A command of main that the drone rejects raises and leaves main().
MainStep(at, next) ==
    /\ mpc = at
    /\ \E ok \in BOOLEAN : mpc' = IF ok THEN next ELSE "raised"

\* tello.connect(), get_battery(), streamon(), get_frame_read()
MainConnect ==
    /\ MainStep("connect", "start")
    /\ UNCHANGED <<leg, logging_active, thread, ts_log>>
    /\ UNCHANGED vars

\* start_data_collection: opens timestep.txt and starts the thread.
MainStartThread ==
    /\ mpc = "start"
    /\ ts_log' = "open"
    /\ thread' = "test"
    /\ mpc' = "takeoff"
    /\ UNCHANGED <<leg, logging_active>>
    /\ UNCHANGED vars

\* tello.takeoff()
MainTakeoff ==
    /\ MainStep("takeoff", "move_forward")
    /\ UNCHANGED <<leg, logging_active, thread, ts_log>>
    /\ UNCHANGED vars

\* tello.move_forward(10)
MainMoveForward ==
    /\ MainStep("move_forward", "rotate")
    /\ UNCHANGED <<leg, logging_active, thread, ts_log>>
    /\ UNCHANGED vars

\* tello.rotate_clockwise(36), and the loop's next round or its end.
MainRotate ==
    /\ MainStep("rotate", IF leg + 1 < Legs THEN "move_forward" ELSE "land")
    /\ leg' = IF mpc' = "raised" THEN leg ELSE leg + 1
    /\ UNCHANGED <<logging_active, thread, ts_log>>
    /\ UNCHANGED vars

\* tello.land()
MainLand ==
    /\ MainStep("land", "clear")
    /\ UNCHANGED <<leg, logging_active, thread, ts_log>>
    /\ UNCHANGED vars

\* logging_active[0] = False
MainClearFlag ==
    /\ mpc = "clear"
    /\ logging_active' = FALSE
    /\ mpc' = "join"
    /\ UNCHANGED <<leg, thread, ts_log>>
    /\ UNCHANGED vars

\* thread.join() returns once the thread has ended.
MainJoin ==
    /\ mpc = "join"
    /\ thread \in {"finished", "died"}
    /\ mpc' = "streamoff"
    /\ UNCHANGED <<leg, logging_active, thread, ts_log>>
    /\ UNCHANGED vars

\* tello.streamoff()
MainStreamOff ==
    /\ MainStep("streamoff", "end")
    /\ UNCHANGED <<leg, logging_active, thread, ts_log>>
    /\ UNCHANGED vars

\* tello.end(), cv2.destroyAllWindows()
MainEnd ==
    /\ mpc = "end"
    /\ mpc' = "done"
    /\ UNCHANGED <<leg, logging_active, thread, ts_log>>
    /\ UNCHANGED vars

\* while logging_active[0]: the flag is set.
LoggerTest ==
    /\ thread = "test"
    /\ logging_active
    /\ thread' = "sample"
    /\ UNCHANGED <<mpc, leg, logging_active, ts_log>>
    /\ UNCHANGED vars

\* The flag is clear: the loop ends, ts_log.close().
LoggerClose ==
    /\ thread = "test"
    /\ ~logging_active
    /\ ts_log' = "closed"
    /\ thread' = "finished"
    /\ UNCHANGED <<mpc, leg, logging_active>>
    /\ UNCHANGED vars

\* The frame is converted and written, the telemetry read and written.
LoggerSample ==
    /\ thread = "sample"
    /\ thread' = "write"
    /\ UNCHANGED <<mpc, leg, logging_active, ts_log>>
    /\ UNCHANGED vars

\* A step of the sample outside the try blocks raises (no frame yet, a
\* state field missing): the thread ends without closing the file.
LoggerRaise ==
    /\ thread = "sample"
    /\ thread' = "died"
    /\ UNCHANGED <<mpc, leg, logging_active, ts_log>>
    /\ UNCHANGED vars

\* ts_log.write, flush, time.sleep(0.1)
LoggerWrite ==
    /\ thread = "write"
    /\ thread' = "test"
    /\ UNCHANGED <<mpc, leg, logging_active, ts_log>>
    /\ UNCHANGED vars

SpiralNext ==
    \/ MainConnect
    \/ MainStartThread
    \/ MainTakeoff
    \/ MainMoveForward
    \/ MainRotate
    \/ MainLand
    \/ MainClearFlag
    \/ MainJoin
    \/ MainStreamOff
    \/ MainEnd
    \/ LoggerTest
    \/ LoggerClose
    \/ LoggerSample
    \/ LoggerRaise
    \/ LoggerWrite

\* ------------------------------------------------------------ specifications

Next ==
    \/ Takeoff
    \/ PoseExhausted
    \/ UpdatePose
    \/ ChooseGoal
    \/ Complete
    \/ RotateTo
    \/ MoveForward

\* Both programs before they run.
InitAll == Init /\ SpiralInit

\* TelloExplorer.run; spiral_capture is not running.
Spec == InitAll /\ [][Next]_<<vars, svars>>

\* The same loop with a caller that raises the cancel signal.
NextCancel == Next \/ RaiseCancel

SpecCancel == InitAll /\ [][NextCancel]_<<vars, svars>>

\* run as scheduled: a sequential loop that takes its next step whenever
\* it has one; the pose stream is finite (at most MaxPoses samples).
SpecFair == Spec /\ WF_vars(Next)

\* main() of spiral_capture with its logging thread; no TelloExplorer runs.
SpecSpiral == InitAll /\ [][SpiralNext]_<<vars, svars>>

TypeOK ==
    /\ pc \in {"Idle", "Flying", "Sensing", "Chosen", "Rotated", "Landed",
               "Raised"}
    /\ Height(occ_map) = Height(visited)
    /\ Width(occ_map) = Width(visited)

\* ------------------------------------------------------------ vocabulary
\* 0 <= r < height and 0 <= c < width.
InBounds(m, r, c) == r >= 0 /\ r < Height(m) /\ c >= 0 /\ c < Width(m)

\* The valid indices of m.
Indices(m) == (0..(Height(m) - 1)) \X (0..(Width(m) - 1))

\* The content of world cell wc in array m with origin o; dflt outside m.
WorldCell(m, o, wc, dflt) ==
    IF InBounds(m, wc[1] + o[1], wc[2] + o[2])
    THEN m[wc[1] + o[1] + 1][wc[2] + o[2] + 1]
    ELSE dflt

\* The world cells array m with origin o holds.
WorldCells(m, o) == {<<i[1] - o[1], i[2] - o[2]>> : i \in Indices(m)}

\* The world cell a pose sample lies in.
PoseCell(p) == <<PyRound(p.x, ResolutionCm), PyRound(p.y, ResolutionCm)>>

\* The steps of run.
UpdatePoseStep == pc = "Flying" /\ pc' = "Sensing"
ChooseGoalStep == pc = "Sensing" /\ pc' = "Chosen"
RotateToStep == pc = "Chosen" /\ pc' \in {"Rotated", "Raised"} /\ goal # None
RunStopped == pc \in {"Landed", "Raised"}

IsMotion(c) == c.name \in {"rotate_clockwise", "rotate_counter_clockwise",
                           "move_forward"}

\* ------------------------------------------------------------ claims

\* C1: after update_pose, the index (gx, gy) that world_to_grid returned
\* (which update_pose stores as curr_idx) is in bounds of the grid:
\* 0 <= row < height and 0 <= col < width, also when the pose lies beyond
\* the top or left edge.
C1_IndexInBounds ==
    pc = "Sensing" => InBounds(occ_map, curr_idx[1], curr_idx[2])

\* C2: across the ensure_in_map calls that get_frontier makes, every index
\* that was valid before still references the same world coordinate and
\* holds the same cell state and visited flag.
C2_IndicesStable ==
    [][ChooseGoalStep =>
        \A i \in Indices(occ_map) :
            /\ <<i[1] - origin'[1], i[2] - origin'[2]>>
                   = <<i[1] - origin[1], i[2] - origin[2]>>
            /\ Get(occ_map', i[1], i[2]) = Get(occ_map, i[1], i[2])
            /\ Get(visited', i[1], i[2]) = Get(visited, i[1], i[2])]_vars

\* The indices ensure_in_map is tried with: the grid and two cells around.
ArgIndices == ((-2)..(Height(occ_map) + 1)) \X ((-2)..(Width(occ_map) + 1))

\* C3: ensure_in_map is idempotent: in every reachable state and for every
\* index, calling it twice leaves the map, origin and curr_idx as calling
\* it once does.
C3_Idempotent ==
    \A g \in ArgIndices :
        ensure_in_map(ensure_in_map(Self, g[1], g[2]), g[1], g[2])
            = ensure_in_map(Self, g[1], g[2])

\* The 4-connected neighbours of index c, in get_frontier's order, whose
\* cell is Unknown (a cell outside the array counts as Unknown).
UnknownNeighbours(m, c) ==
    LET n == [k \in 1..4 |-> <<c[1] + Offsets[k][1], c[2] + Offsets[k][2]>>]
        IsUnknown(i) == ~InBounds(m, i[1], i[2]) \/ m[i[1] + 1][i[2] + 1] = unknown
    IN  SelectSeq(n, IsUnknown)

\* C4: after get_frontier, the frontier it returned is exactly the
\* 4-connected neighbours of curr_idx whose state is Unknown, in the order
\* (-1,0), (1,0), (0,-1), (0,1).
C4_FrontierExact ==
    pc = "Chosen" => f = UnknownNeighbours(occ_map, curr_idx)

\* C5: update_pose(x, y, z, quat) leaves curr_idx at the index of world
\* cell (round(x/resolution), round(y/resolution)), that cell Free and
\* visited, and every other world cell as it was.
C5_PoseCommitted ==
    [][UpdatePoseStep =>
        LET wc == PoseCell(pose')
        IN  /\ <<curr_idx'[1] - origin'[1], curr_idx'[2] - origin'[2]>> = wc
            /\ WorldCell(occ_map', origin', wc, unknown) = free
            /\ WorldCell(visited', origin', wc, FALSE) = TRUE
            /\ \A w \in (WorldCells(occ_map, origin)
                             \cup WorldCells(occ_map', origin')) \ {wc} :
                /\ WorldCell(occ_map', origin', w, unknown)
                       = WorldCell(occ_map, origin, w, unknown)
                /\ WorldCell(visited', origin', w, FALSE)
                       = WorldCell(visited, origin, w, FALSE)]_vars

\* Some rotate or move-forward command was rejected by the executor.
MotionFailed == \E i \in 1..Len(cmds) : IsMotion(cmds[i]) /\ ~cmds[i].ok

\* cmds2 is cmds1 followed by commands none of which is a rotate or a
\* move-forward.
NoNewMotion(cmds1, cmds2) ==
    /\ Len(cmds2) >= Len(cmds1)
    /\ SubSeq(cmds2, 1, Len(cmds1)) = cmds1
    /\ \A i \in (Len(cmds1) + 1)..Len(cmds2) : ~IsMotion(cmds2[i])

\* C6: when the executor rejects a rotate or move-forward command, no
\* further rotate/move-forward command is issued and run ends in Landed
\* with an error reason.
C6_FailureLands ==
    /\ [](MotionFailed /\ RunStopped
            => pc = "Landed" /\ reason = "MotionExecutionFailed")
    /\ [][MotionFailed => NoNewMotion(cmds, cmds')]_vars

\* C7: when choose_next_goal returns no goal, the next step of run ends
\* the loop with ExplorationComplete and sends the executor nothing but
\* land: no rotate or move-forward command is issued in that iteration.
C7_NoGoalCompletes ==
    [][pc = "Chosen" /\ goal = None /\ pc' # pc =>
        /\ RunStopped'
        /\ reason' = "ExplorationComplete"
        /\ Len(cmds') = Len(cmds) + 1
        /\ cmds'[Len(cmds')].name = "land"
        /\ NoNewMotion(cmds, cmds')]_vars

\* C7 witness: run has ended with ExplorationComplete on an empty frontier.
C7_Witness ==
    /\ pc = "Landed"
    /\ reason = "ExplorationComplete"
    /\ goal = None
    /\ f = <<>>
    /\ cmds[Len(cmds)].name = "land"

\* C8: when the pose source returns no sample, run ends with
\* PoseStreamExhausted, leaves the grid, origin, curr_idx and heading as
\* they were and sends the executor nothing but land; with an empty pose
\* stream no rotate or move-forward command is ever sent.
C8_Exhaustion ==
    /\ [][pc = "Flying" /\ RunStopped' =>
            /\ reason' = "PoseStreamExhausted"
            /\ UNCHANGED <<occ_map, visited, origin, curr_idx, yaw>>
            /\ Len(cmds') = Len(cmds) + 1
            /\ cmds'[Len(cmds')].name = "land"
            /\ NoNewMotion(cmds, cmds')]_vars
    /\ [][RunStopped => UNCHANGED vars]_vars
    /\ [](RunStopped /\ nposes = 0 => \A i \in 1..Len(cmds) : ~IsMotion(cmds[i]))

\* C8 witness: the stream ended after samples were consumed and moves made.
C8_Witness ==
    /\ pc = "Landed"
    /\ reason = "PoseStreamExhausted"
    /\ nposes > 0
    /\ \E i \in 1..Len(cmds) : cmds[i].name = "move_forward"

\* C9: once the cancel signal is raised between two iterations, no further
\* rotate or move-forward command is issued.
C9_CancelHonoured ==
    [][cancel => NoNewMotion(cmds, cmds')]_vars

\* |dx| + |dy| = 1 between indices a and b.
Adjacent(a, b) == Abs(b[1] - a[1]) + Abs(b[2] - a[2]) = 1

\* C10: the rotation rotate_to computes lies in (-180, 180], a positive one
\* is issued as rotate_clockwise and a negative one as
\* rotate_counter_clockwise, of the same magnitude (stated for the moves to
\* a 4-adjacent cell, whose target headings are 0, 90, 180 and -90).
C10_HalfOpenAbove ==
    [][RotateToStep /\ Adjacent(curr_idx, goal) =>
        LET diff == YawDiff(YawGoal(curr_idx, goal), yaw)
            last == cmds'[Len(cmds')]
        IN  /\ diff > -HalfTurn /\ diff <= HalfTurn
            /\ diff > 0 => /\ last.name = "rotate_clockwise"
                           /\ last.arg * CentiPerDeg = diff
            /\ diff < 0 => /\ last.name = "rotate_counter_clockwise"
                           /\ last.arg * CentiPerDeg = -diff]_vars

\* Headings rotate_to is tried with, in hundredths of a degree: whole and
\* fractional degrees, a half-turn, and values beyond a full turn.
Headings == {-54000, -17950, 0, 9050, HalfTurn, 36050}

\* C10 amended: the rotation is congruent to target - current modulo 360
\* and lies in [-180, 180) (a half-turn is -180); a positive one is issued
\* as rotate_clockwise and a negative one as rotate_counter_clockwise, by
\* the whole degrees of its magnitude (the fraction is cut); a zero one
\* issues no command.
C10_HalfOpenBelow ==
    /\ [](\A t \in Headings : \A y \in Headings :
            LET diff == YawDiff(t, y)
            IN  /\ diff >= -HalfTurn /\ diff < HalfTurn
                /\ \E k \in -4..4 : diff = t - y + k * FullTurn
                /\ (t - y = HalfTurn) => diff = -HalfTurn)
    /\ [][RotateToStep =>
        LET target == YawGoal(curr_idx, goal)
            diff == YawDiff(target, yaw)
            last == cmds'[Len(cmds')]
        IN  /\ diff >= -HalfTurn /\ diff < HalfTurn
            /\ \E k \in -2..2 : diff = target - yaw + k * FullTurn
            /\ diff = 0 => cmds' = cmds
            /\ diff # 0 => Len(cmds') = Len(cmds) + 1
            /\ diff > 0 => /\ last.name = "rotate_clockwise"
                           /\ last.arg * CentiPerDeg <= diff
                           /\ diff < (last.arg + 1) * CentiPerDeg
            /\ diff < 0 => /\ last.name = "rotate_counter_clockwise"
                           /\ last.arg * CentiPerDeg <= -diff
                           /\ -diff < (last.arg + 1) * CentiPerDeg]_vars

\* C10 witness: a half-turn was issued counter-clockwise, and a rotation
\* with a fraction of a degree was issued by its whole degrees.
C10_Witness ==
    /\ pc = "Rotated"
    /\ \E i \in 1..Len(cmds) :
        cmds[i].name = "rotate_counter_clockwise" /\ cmds[i].arg = 180
    /\ \E i \in 1..Len(cmds) :
        cmds[i].name = "rotate_clockwise" /\ cmds[i].arg = 89

\* The other steps of run.
MoveForwardStep == pc = "Rotated" /\ pc' \in {"Flying", "Raised"}

\* C11: the planned move has target heading atan2(dy, dx) in degrees (0 for
\* (1,0), 90 for (0,1), 180 for (-1,0), -90 for (0,-1), in the quadrant of
\* (dx, dy) otherwise), a rotation congruent to target - current heading,
\* and the non-negative forward distance hypot(dx, dy) * resolution, sent
\* in whole centimetres; current (0,0), heading 0, goal (0,2) gives
\* rotation 90 and distance 1.0 m.
C11_PlannedMove ==
    /\ [](pc = "Idle" =>
            /\ YawGoal(<<0, 0>>, <<1, 0>>) = 0
            /\ YawGoal(<<0, 0>>, <<0, 1>>) = 90 * CentiPerDeg
            /\ YawGoal(<<0, 0>>, <<-1, 0>>) = 180 * CentiPerDeg
            /\ YawGoal(<<0, 0>>, <<0, -1>>) = -90 * CentiPerDeg
            /\ YawDiff(YawGoal(<<0, 0>>, <<0, 2>>), 0) = 90 * CentiPerDeg
            /\ RotateCmd(YawDiff(YawGoal(<<0, 0>>, <<0, 2>>), 0))
                   = [name |-> "rotate_clockwise", arg |-> 90]
            /\ ForwardCm(<<0, 0>>, <<0, 2>>) = 100)
    /\ [][RotateToStep /\ pc' = "Rotated" =>
            LET dx == goal[1] - curr_idx[1]
                dy == goal[2] - curr_idx[2]
                t == yaw'
            IN  /\ (dy = 0 /\ dx > 0) => t = 0
                /\ (dx = 0 /\ dy > 0) => t = 90 * CentiPerDeg
                /\ (dy = 0 /\ dx < 0) => t = 180 * CentiPerDeg
                /\ (dx = 0 /\ dy < 0) => t = -90 * CentiPerDeg
                /\ dy > 0 => (t > 0 /\ t < HalfTurn)
                /\ dy < 0 => (t < 0 /\ t > -HalfTurn)
                /\ dx > 0 => Abs(t) < 90 * CentiPerDeg
                /\ dx < 0 => Abs(t) > 90 * CentiPerDeg
                /\ (Abs(dx) = Abs(dy)) => Abs(t) \in {4500, 13500}
                /\ \E k \in -2..2 :
                       YawDiff(t, yaw) = t - yaw + k * FullTurn]_vars
    /\ [][MoveForwardStep =>
            LET dx == goal[1] - curr_idx[1]
                dy == goal[2] - curr_idx[2]
                last == cmds'[Len(cmds')]
            IN  /\ Len(cmds') = Len(cmds) + 1
                /\ last.name = "move_forward"
                /\ last.arg >= 0
                /\ last.arg * last.arg
                       <= ResolutionCm * ResolutionCm * (dx * dx + dy * dy)
                /\ (last.arg + 1) * (last.arg + 1)
                       > ResolutionCm * ResolutionCm * (dx * dx + dy * dy)]_vars

\* C11 witness: a move to the next row up was planned from heading 0 and
\* carried out: a half-turn, then one cell forward.
C11_Witness ==
    /\ pc = "Flying"
    /\ yaw = HalfTurn
    /\ Len(cmds) = 3
    /\ cmds[2].name = "rotate_counter_clockwise" /\ cmds[2].arg = 180
    /\ cmds[3] = Cmd("move_forward", ResolutionCm, TRUE)

IsRotate(c) == c.name \in {"rotate_clockwise", "rotate_counter_clockwise"}

\* C12: every move-forward command is directly preceded by that
\* iteration's rotation command, which completed (stated for the moves to a
\* 4-adjacent cell).
C12_RotateCmdThenForward ==
    [][MoveForwardStep /\ Adjacent(curr_idx, goal) =>
        /\ IsRotate(cmds[Len(cmds)])
        /\ cmds[Len(cmds)].ok]_vars

\* C12 amended: every Moving step runs rotate_to and then the forward
\* command, in that order and never combined: rotate_to sends one rotation
\* command, or none when the rotation it computed is zero, and nothing
\* else; the move-forward command is sent only once that iteration's
\* rotate_to has completed (the heading being the target heading), never
\* after a command that failed, and is the only command of its step.
C12_RotateToThenForward ==
    /\ [](\A i \in 1..Len(cmds) :
            cmds[i].name = "move_forward" => i > 1 /\ cmds[i - 1].ok)
    /\ [](pc = "Rotated" => yaw = YawGoal(curr_idx, goal))
    /\ [][RotateToStep =>
            LET diff == YawDiff(YawGoal(curr_idx, goal), yaw)
            IN  /\ diff = 0 => cmds' = cmds /\ pc' = "Rotated"
                /\ diff # 0 => /\ Len(cmds') = Len(cmds) + 1
                               /\ SubSeq(cmds', 1, Len(cmds)) = cmds
                               /\ IsRotate(cmds'[Len(cmds')])
                               /\ cmds'[Len(cmds')].ok = (pc' = "Rotated")]_vars
    /\ [][cmds' # cmds /\ cmds'[Len(cmds')].name = "move_forward" =>
            /\ pc = "Rotated"
            /\ cmds' = Append(cmds, cmds'[Len(cmds')])]_vars

\* C12 witness: the heading was already the target heading, so the first
\* move sent a move-forward command and no rotation command.
C12_Witness ==
    /\ pc = "Flying"
    /\ Len(cmds) = 2
    /\ cmds[1].name = "takeoff"
    /\ cmds[2].name = "move_forward" /\ cmds[2].ok

\* C13: curr_idx and yaw are changed by update_pose only; no other step of
\* run (ensure_in_map within get_frontier and choose_next_goal, rotate_to,
\* move_one_cell) changes either of them.
C13_OnlyUpdatePose == [][~UpdatePoseStep => UNCHANGED <<curr_idx, yaw>>]_vars

\* C13 amended: besides update_pose, which runs once per accepted pose
\* sample, curr_idx is changed only by ensure_in_map, which shifts it by the
\* pad it adds on the top and left, exactly as it shifts origin; and yaw is
\* changed only by rotate_to, which sets it to the target heading when it
\* completes. Every other step leaves both alone.
C13_UpdatePoseShiftRotate ==
    /\ [][(nposes' # nposes) = UpdatePoseStep]_vars
    /\ [][UpdatePoseStep => nposes' = nposes + 1 /\ yaw' = pose'.yaw]_vars
    /\ [][ChooseGoalStep =>
            /\ yaw' = yaw
            /\ curr_idx'[1] - curr_idx[1] = origin'[1] - origin[1]
            /\ curr_idx'[2] - curr_idx[2] = origin'[2] - origin[2]]_vars
    /\ [][RotateToStep =>
            /\ curr_idx' = curr_idx
            /\ yaw' \in {yaw, YawGoal(curr_idx, goal)}]_vars
    /\ [][~(UpdatePoseStep \/ ChooseGoalStep \/ RotateToStep) =>
            UNCHANGED <<curr_idx, yaw>>]_vars

\* C13 witness: after the first pose sample get_frontier padded the grid on
\* the left, so that choose_next_goal shifted curr_idx along with origin, and
\* rotate_to then set the heading to the target heading.
C13_Witness ==
    /\ pc = "Rotated"
    /\ nposes = 1
    /\ origin = <<HalfSize, HalfSize + 1>>
    /\ curr_idx = world_to_grid(Self, pose.x, pose.y)
    /\ yaw # pose.yaw
    /\ yaw = YawGoal(curr_idx, goal)

\* C14: get_frontier and choose_next_goal are read-only up to the growth of
\* the grid: every world cell the grid held keeps its state and its visited
\* flag, the world cell the agent is in (curr_idx minus origin) and the
\* heading do not change, and every cell they add is unknown and unvisited.
C14_ReadOnlyUpToGrowth ==
    [][ChooseGoalStep =>
        /\ \A wc \in WorldCells(occ_map, origin) :
            /\ wc \in WorldCells(occ_map', origin')
            /\ WorldCell(occ_map', origin', wc, occ)
                    = WorldCell(occ_map, origin, wc, occ)
            /\ WorldCell(visited', origin', wc, "none")
                    = WorldCell(visited, origin, wc, "none")
        /\ \A wc \in WorldCells(occ_map', origin') \ WorldCells(occ_map, origin) :
            /\ WorldCell(occ_map', origin', wc, occ) = unknown
            /\ WorldCell(visited', origin', wc, "none") = FALSE
        /\ WorldCells(visited', origin') = WorldCells(occ_map', origin')
        /\ <<curr_idx'[1] - origin'[1], curr_idx'[2] - origin'[2]>>
                = <<curr_idx[1] - origin[1], curr_idx[2] - origin[2]>>
        /\ yaw' = yaw
        /\ UNCHANGED <<pose, cmds, nposes>>]_vars

\* C14 witness: choose_next_goal has grown a grid that held a free, visited
\* cell, on the top or on the left, and returned a goal.
C14_Witness ==
    /\ pc = "Chosen"
    /\ goal # None
    /\ nposes = 1
    /\ origin # <<HalfSize, HalfSize>>
    /\ curr_idx = world_to_grid(Self, pose.x, pose.y)
    /\ Get(occ_map, curr_idx[1], curr_idx[2]) = free
    /\ Get(visited, curr_idx[1], curr_idx[2])

\* C15: in every reachable state origin is a valid index of the grid (and
\* of visited, which has the grid's shape), and growth is monotonic: no
\* step of run (update_pose, get_frontier and the ensure_in_map calls
\* within them included) makes the grid lower or narrower.
C15_OriginInBoundsMonotone ==
    /\ [](/\ InBounds(occ_map, origin[1], origin[2])
          /\ Height(visited) = Height(occ_map)
          /\ Width(visited) = Width(occ_map))
    /\ [][/\ Height(occ_map') >= Height(occ_map)
          /\ Width(occ_map') >= Width(occ_map)
          /\ (~(UpdatePoseStep \/ ChooseGoalStep) => occ_map' = occ_map)]_vars

\* C15 witness: the grid has grown on the top and on the left and on the
\* bottom or right, and origin has moved with it.
C15_Witness ==
    /\ Height(occ_map) > InitSize + 1
    /\ Width(occ_map) > InitSize + 1
    /\ origin[1] > HalfSize
    /\ origin[2] > HalfSize

\* C16: nothing writes the occupied state: in every reachable state every
\* cell of the grid is unknown or free.
C16_NeverOccupied ==
    \A i \in Indices(occ_map) :
        /\ occ_map[i[1] + 1][i[2] + 1] \in {unknown, free}
        /\ occ_map[i[1] + 1][i[2] + 1] # occ

\* C16 witness: update_pose has written cells and ensure_in_map has padded
\* the grid; it holds free cells and unknown cells.
C16_Witness ==
    /\ nposes >= 2
    /\ Height(occ_map) > InitSize
    /\ \E i, j \in Indices(occ_map) :
        /\ i # j
        /\ occ_map[i[1] + 1][i[2] + 1] = free
        /\ occ_map[j[1] + 1][j[2] + 1] = free
    /\ \E i \in Indices(occ_map) : occ_map[i[1] + 1][i[2] + 1] = unknown

\* C17: after choose_next_goal, the goal it returned is the first element of
\* the frontier get_frontier returned, and None exactly when that is empty;
\* so it is the first of the neighbours (-1,0), (1,0), (0,-1), (0,1) of
\* curr_idx whose cell is Unknown, and None exactly when there is none.
C17_FirstUnknownNeighbour ==
    pc = "Chosen" =>
        LET un == UnknownNeighbours(occ_map, curr_idx)
        IN  /\ goal = (IF f # <<>> THEN f[1] ELSE None)
            /\ goal = (IF un # <<>> THEN un[1] ELSE None)

\* The indices ensure_in_map is asked for in C18: in bounds, and up to two
\* cells beyond one edge or two edges of the grid.
EdgeIndices ==
    LET h == Height(occ_map)
        w == Width(occ_map)
    IN  {<<0, 0>>, <<h - 1, w - 1>>, <<-1, 0>>, <<h - 1, -2>>, <<h, 1>>,
         <<1, w + 1>>, <<-2, -1>>, <<-1, w>>, <<h + 1, -1>>, <<h, w>>}

\* C18: ensure_in_map(row, col) pads only the sides on which the index is
\* out of bounds, each by exactly the amount that brings the index in: the
\* index shifted by the top and left pad is in bounds, and on a padded side
\* it is the outermost row or column. The old cells keep their content, the
\* new ones are Unknown and unvisited; origin and curr_idx are shifted by
\* exactly the top pad (rows) and the left pad (columns), and not by what is
\* padded on the bottom and right. (Checked on the grids of the first
\* MaxPoses - 2 pose samples.)
C18_PadExact ==
    pc \in {"Idle", "Chosen"} /\ nposes < MaxPoses - 1 =>
        \A g \in EdgeIndices :
            LET h == Height(occ_map)
                w == Width(occ_map)
                top == IF g[1] < 0 THEN -g[1] ELSE 0
                bottom == IF g[1] > h - 1 THEN g[1] - (h - 1) ELSE 0
                left == IF g[2] < 0 THEN -g[2] ELSE 0
                right == IF g[2] > w - 1 THEN g[2] - (w - 1) ELSE 0
                Grown(m, dflt) ==
                    [r \in 1..(h + top + bottom) |->
                        [c \in 1..(w + left + right) |->
                            IF InBounds(m, r - 1 - top, c - 1 - left)
                            THEN m[r - top][c - left]
                            ELSE dflt]]
            IN  /\ top > 0 => g[1] + top = 0
                /\ bottom > 0 => g[1] = h + top + bottom - 1
                /\ left > 0 => g[2] + left = 0
                /\ right > 0 => g[2] = w + left + right - 1
                /\ g[1] + top \in 0..(h + top + bottom - 1)
                /\ g[2] + left \in 0..(w + left + right - 1)
                /\ ensure_in_map(Self, g[1], g[2]) =
                        [occ_map |-> Grown(occ_map, unknown),
                         visited |-> Grown(visited, FALSE),
                         origin |-> <<origin[1] + top, origin[2] + left>>,
                         curr_idx |-> <<curr_idx[1] + top,
                                        curr_idx[2] + left>>]

\* C18 witness: a grid that holds a free, visited cell and has already been
\* padded on the top or left, for which ensure_in_map pads on the top and
\* left and, for another index, on the bottom and right.
C18_Witness ==
    /\ pc = "Chosen"
    /\ origin # <<HalfSize, HalfSize>>
    /\ \E i \in Indices(occ_map) : occ_map[i[1] + 1][i[2] + 1] = free
    /\ ensure_in_map(Self, -2, -1).origin = <<origin[1] + 2, origin[2] + 1>>
    /\ ensure_in_map(Self, Height(occ_map), Width(occ_map) + 1).origin = origin
    /\ Height(ensure_in_map(Self, Height(occ_map), -1).occ_map)
            = Height(occ_map) + 1

\* C19: every goal run passes to move_one_cell is 4-adjacent to curr_idx as
\* it stands when the move is planned, also when get_frontier has padded the
\* grid on the top or left and shifted curr_idx; so the forward command
\* moves one cell, resolution metres. (Stated for the moves planned from a
\* curr_idx that is the index of the pose sample's cell.)
C19_GoalAdjacent ==
    /\ pc \in {"Chosen", "Rotated"}
    /\ goal # None
    /\ curr_idx = world_to_grid(Self, pose.x, pose.y)
    => /\ Adjacent(curr_idx, goal)
       /\ ForwardCm(curr_idx, goal) = ResolutionCm

\* C20: when rotate_to's rotation command succeeds, yaw becomes the target
\* heading rotate_to was given (the commanded value, whatever whole number
\* of degrees the command carried) and keeps that value until the next
\* update_pose; when the rotation command fails, yaw keeps its previous
\* value.
C20_HeadingCommanded ==
    /\ [][RotateToStep =>
            LET target_yaw == YawGoal(curr_idx, goal)
                last == cmds'[Len(cmds')]
            IN  /\ pc' = "Rotated" /\ cmds' # cmds =>
                    /\ IsRotate(last) /\ last.ok
                    /\ yaw' = target_yaw
                /\ pc' = "Raised" =>
                    /\ cmds' # cmds
                    /\ IsRotate(last) /\ ~last.ok
                    /\ yaw' = yaw]_vars
    /\ [][~UpdatePoseStep /\ ~RotateToStep => yaw' = yaw]_vars
    /\ [][UpdatePoseStep => yaw' = pose'.yaw]_vars

\* C20 witness: a rotation of 89.5 degrees was commanded as 89 whole degrees
\* and succeeded, and the heading is the target heading, 180 degrees; the
\* forward command that followed left it there.
C20_Witness ==
    /\ pc = "Flying"
    /\ Len(cmds) = 3
    /\ pose.yaw = 9050
    /\ cmds[2] = Cmd("rotate_clockwise", 89, TRUE)
    /\ cmds[3].name = "move_forward"
    /\ yaw = HalfTurn

\* C21: on every path by which run stops after takeoff (pose stream
\* exhausted, exploration complete, or a failed rotate or move-forward
\* command), takeoff was the first executor command, land was issued exactly
\* once and is the last executor command, so that no rotate or move-forward
\* command follows land; and a stopped run takes no further step.
C21_LandLast ==
    /\ [](RunStopped /\ cmds[1].ok =>
            /\ cmds[1].name = "takeoff"
            /\ cmds[Len(cmds)].name = "land"
            /\ \A i \in 1..(Len(cmds) - 1) : cmds[i].name # "land")
    /\ [][RunStopped => UNCHANGED vars]_vars

\* The number of commands of cmds that satisfy P.
CountCmds(P(_)) == Cardinality({i \in 1..Len(cmds) : P(cmds[i])})

IsForward(c) == c.name = "move_forward"

ExecutorFailed == \E i \in 1..Len(cmds) : ~cmds[i].ok

\* C22: with a finite pose stream and an executor that never fails, run
\* terminates in Landed. Every sample is consumed once, as it arrives (one
\* update_pose per sample), at most one rotate and one move-forward command
\* are issued per consumed sample, and a sample is requested only when the
\* one before it has been processed to the end of its move.
C22_Terminates ==
    /\ <>(pc = "Landed" \/ ExecutorFailed)
    /\ [](pc = "Raised" => ExecutorFailed)
    /\ [](/\ nposes <= MaxPoses
          /\ CountCmds(IsRotate) <= nposes
          /\ CountCmds(IsForward) <= nposes)
    /\ [][nposes' # nposes =>
            /\ UpdatePoseStep
            /\ nposes' = nposes + 1
            /\ pose' \in PoseSamples
            /\ cmds[Len(cmds)].ok
            /\ cmds[Len(cmds)].name =
                    (IF nposes = 0 THEN "takeoff" ELSE "move_forward")]_vars

\* C22 witness: run has landed after it consumed the whole stream and made
\* a move for every sample, no command having failed.
C22_Witness ==
    /\ pc = "Landed"
    /\ nposes = MaxPoses
    /\ ~ExecutorFailed
    /\ CountCmds(IsForward) = nposes
    /\ CountCmds(IsRotate) > 0

\* C23: in every reachable state the occupancy array and the visited mask
\* have the same dimensions, and for every cell the visited flag is true
\* if and only if the cell's state is Free.
C23_VisitedIffFree ==
    /\ Height(visited) = Height(occ_map)
    /\ \A r \in 1..Height(occ_map) :
        /\ Len(visited[r]) = Len(occ_map[r])
        /\ Len(occ_map[r]) = Width(occ_map)
        /\ \A c \in 1..Width(occ_map) :
            visited[r][c] = (occ_map[r][c] = free)

\* C23 witness: after several pose samples and padding on the top and the
\* left, the grid holds two visited free cells and an unvisited unknown one.
C23_Witness ==
    /\ nposes >= 2
    /\ origin[1] > HalfSize
    /\ origin[2] > HalfSize
    /\ \E i, j \in Indices(occ_map) :
        /\ i # j
        /\ visited[i[1] + 1][i[2] + 1] /\ occ_map[i[1] + 1][i[2] + 1] = free
        /\ visited[j[1] + 1][j[2] + 1] /\ occ_map[j[1] + 1][j[2] + 1] = free
    /\ \E i \in Indices(occ_map) :
        ~visited[i[1] + 1][i[2] + 1] /\ occ_map[i[1] + 1][i[2] + 1] = unknown

\* main() of spiral_capture has returned or raised.
MainExited == mpc \in {"done", "raised"}

\* C24: on every path out of main, once the logging thread was started,
\* the logging_active flag is cleared and the thread has been joined, having
\* closed timestep.txt, before the stream is turned off and the connection
\* ended; also when takeoff, move_forward, rotate_clockwise or land fails.
C24_LoggerStopped ==
    /\ MainExited /\ thread # "unstarted" =>
        /\ ~logging_active
        /\ thread = "finished"
        /\ ts_log = "closed"
    /\ mpc \in {"streamoff", "end", "done"} =>
        /\ ~logging_active
        /\ thread = "finished"
        /\ ts_log = "closed"

====
